---- MODULE Spec2Model ----
(***************************************************************************)
(* Model of server.py: the CatchAll MCP server whose tools forward one     *)
(* HTTP request each to the upstream API, authenticated by the apiKey      *)
(* query parameter that ApiKeyMiddleware stores in a context variable.     *)
(***************************************************************************)
EXTENDS Integers, Sequences, FiniteSets, TLC

(* ------------------------------ bounds --------------------------------- *)

\* number of distinct non-empty apiKey values a caller may put in the URL
NumKeys == 2

\* number of distinct job / monitor identifiers
NumIds == 1

(* ------------------------- program constants --------------------------- *)

\* server.py:110  if response.status_code >= 400
ErrorStatus == 400

(* ------------------------------ values --------------------------------- *)

\* Python None, for the optional tool arguments
None == "<None>"

\* Python truthiness of an optional string argument
Truthy(v) == v # None /\ v # ""

Keys == {"K" \o ToString(i) : i \in 1..NumKeys}

Ids == {"id" \o ToString(i) : i \in 1..NumIds}

\* the call contexts (contextvars.Context objects): one per logical connection
Contexts == {"ctxA", "ctxB"}

\* value of the process environment variable NEWSCATCHER_API_KEY
EnvValues == {"", "KENV"}

\* value of an api_key argument a caller may add to the tool arguments
ExplicitValues == {"", "KEXP"}

(* --------------------- the inbound HTTP request ------------------------ *)

\* get_http_request() either returns the request (with its query string) or
\* raises when the call does not arrive over HTTP
HttpRequest(apiKey) == [present |-> TRUE, apiKey |-> apiKey]

NoHttpRequest == [present |-> FALSE, apiKey |-> ""]

\* request.query_params.get("apiKey", ""): a missing parameter reads as ""
HttpRequests == {HttpRequest(k) : k \in Keys \cup {""}} \cup {NoHttpRequest}

(* ------------------------- results of a call --------------------------- *)

NoResult == [kind |-> "none"]

Return(value) == [kind |-> "return", value |-> value]

Raise(exc, msg) == [kind |-> "raise", exc |-> exc, msg |-> msg]

\* the string-result convention: catch the error and return "Error: ..."
ReturnErrorString(msg) == Return("Error: " \o msg)

\* raise ValueError(msg): the exception leaves the function that raises it
RaiseValueError(msg) == Raise("ValueError", msg)

(* -------------------- per-tool request templates ----------------------- *)

NoParams == [kind |-> "none"]

NoJson == [kind |-> "none"]

Json(data) == [kind |-> "dict", data |-> data]

Params(p) == [kind |-> "dict", data |-> p]

\* the arguments of a make_api_request(method, path, json_data, params) call
ApiCall(method, path, json_data, params) ==
  [kind |-> "call", method |-> method, path |-> path,
   json_data |-> json_data, params |-> params]

\* a dict built by conditional insertion: the entries of d whose key is in keep
Restrict(d, keep) == [k \in keep |-> d[k]]

submit_url(a) ==
  LET full == [url |-> a.url, extraction_type |-> a.extraction_type,
               webhook |-> [url |-> a.webhook_url]]
      keys == {"url", "extraction_type"}
                \cup (IF Truthy(a.webhook_url) THEN {"webhook"} ELSE {})
  IN  ApiCall("POST", "/catchAll/submit", Json(Restrict(full, keys)), NoParams)

get_job_status(a) ==
  ApiCall("GET", "/catchAll/status/" \o a.job_id, NoJson, NoParams)

pull_job_results_wrong_path(a) ==
  ApiCall("GET", "/catchAll/status/" \o a.job_id, NoJson, NoParams)

pull_job_results(a) ==
  ApiCall("GET", "/catchAll/pull/" \o a.job_id, NoJson, NoParams)

list_user_jobs(a) ==
  LET full == [limit |-> a.limit, offset |-> a.offset, status |-> a.status]
      keys == {"limit", "offset"}
                \cup (IF Truthy(a.status) THEN {"status"} ELSE {})
  IN  ApiCall("GET", "/catchAll/jobs/user", NoJson, Params(Restrict(full, keys)))

continue_job(a) ==
  ApiCall("POST", "/catchAll/continue", Json([job_id |-> a.job_id]), NoParams)

create_monitor(a) ==
  LET full == [url |-> a.url, schedule |-> a.schedule, name |-> a.name]
      keys == {"url", "schedule"}
                \cup (IF Truthy(a.name) THEN {"name"} ELSE {})
  IN  ApiCall("POST", "/catchAll/monitors/create", Json(Restrict(full, keys)), NoParams)

list_monitors(a) ==
  ApiCall("GET", "/catchAll/monitors/", NoJson, NoParams)

get_monitor_jobs(a) ==
  ApiCall("GET", "/catchAll/monitors/" \o a.monitor_id \o "/jobs", NoJson, NoParams)

pull_monitor_results(a) ==
  ApiCall("GET", "/catchAll/monitors/pull/" \o a.monitor_id, NoJson, NoParams)

enable_monitor(a) ==
  ApiCall("POST", "/catchAll/monitors/" \o a.monitor_id \o "/enable", NoJson, NoParams)

disable_monitor(a) ==
  ApiCall("POST", "/catchAll/monitors/" \o a.monitor_id \o "/disable", NoJson, NoParams)

UpdateMonitorMessage == "At least one of 'name' or 'schedule' must be provided"

\* update_monitor without the "if not data" check
update_monitor_unchecked(a) ==
  LET full == [name |-> a.name, schedule |-> a.schedule]
      keys == (IF Truthy(a.name) THEN {"name"} ELSE {})
                \cup (IF Truthy(a.schedule) THEN {"schedule"} ELSE {})
  IN  ApiCall("PATCH", "/catchAll/monitors/" \o a.monitor_id,
              Json(Restrict(full, keys)), NoParams)

update_monitor(a) ==
  LET full == [name |-> a.name, schedule |-> a.schedule]
      keys == (IF Truthy(a.name) THEN {"name"} ELSE {})
                \cup (IF Truthy(a.schedule) THEN {"schedule"} ELSE {})
  IN  IF keys = {}
      THEN RaiseValueError(UpdateMonitorMessage)
      ELSE ApiCall("PATCH", "/catchAll/monitors/" \o a.monitor_id,
                   Json(Restrict(full, keys)), NoParams)

\* the body of the registered tool named tool, run on the arguments a
ToolBody(tool, a) ==
  CASE tool = "submit_url" -> submit_url(a)
    [] tool = "get_job_status" -> get_job_status(a)
    [] tool = "pull_job_results" -> pull_job_results(a)
    [] tool = "list_user_jobs" -> list_user_jobs(a)
    [] tool = "continue_job" -> continue_job(a)
    [] tool = "create_monitor" -> create_monitor(a)
    [] tool = "list_monitors" -> list_monitors(a)
    [] tool = "get_monitor_jobs" -> get_monitor_jobs(a)
    [] tool = "pull_monitor_results" -> pull_monitor_results(a)
    [] tool = "enable_monitor" -> enable_monitor(a)
    [] tool = "disable_monitor" -> disable_monitor(a)
    [] tool = "update_monitor" -> update_monitor(a)

(* ------------------------------ JSON ----------------------------------- *)

JStr(s) == [t |-> "str", s |-> s]

\* a JSON object: its members in document order
JObj(items) == [t |-> "obj", items |-> items]

\* a JSON array, kept as its text and its Python repr
JArr(text, repr) == [t |-> "arr", text |-> text, repr |-> repr]

Member(k, v) == [k |-> k, v |-> v]

\* the JSON documents an upstream body may hold
JsonValues ==
  { JObj(<<Member("detail", JStr("rate limited"))>>),
    JObj(<<Member("detail", JObj(<<Member("detail", JStr("bad query"))>>))>>),
    JObj(<<Member("error", JStr("x"))>>),
    JObj(<<Member("message", JStr("m"))>>),
    JObj(<<Member("message", JStr("m")), Member("error", JStr("x")),
           Member("detail", JStr("d"))>>),
    JObj(<<Member("message", JStr("m")), Member("error", JStr("x"))>>),
    JObj(<<Member("job_id", JStr("abc"))>>),
    JArr("[1, 2]", "[1, 2]") }

RECURSIVE json_dumps(_)
\* the JSON text of a value
json_dumps(v) ==
  IF v.t = "str" THEN "\"" \o v.s \o "\""
  ELSE IF v.t = "arr" THEN v.text
  ELSE LET RECURSIVE members(_)
           members(i) ==
             IF i > Len(v.items) THEN ""
             ELSE (IF i > 1 THEN "," ELSE "")
                    \o "\"" \o v.items[i].k \o "\":" \o json_dumps(v.items[i].v)
                    \o members(i + 1)
       IN  "{" \o members(1) \o "}"

RECURSIVE py_repr(_)
\* Python's repr() of a decoded JSON value
py_repr(v) ==
  IF v.t = "str" THEN "'" \o v.s \o "'"
  ELSE IF v.t = "arr" THEN v.repr
  ELSE LET RECURSIVE members(_)
           members(i) ==
             IF i > Len(v.items) THEN ""
             ELSE (IF i > 1 THEN ", " ELSE "")
                    \o "'" \o v.items[i].k \o "': " \o py_repr(v.items[i].v)
                    \o members(i + 1)
       IN  "{" \o members(1) \o "}"

\* Python's str() of a decoded JSON value: a string is itself, anything else
\* is its repr
py_str(v) == IF v.t = "str" THEN v.s ELSE py_repr(v)

\* json.loads(text): the document whose text it is, or JSONDecodeError
json_loads(text) ==
  IF \E v \in JsonValues : json_dumps(v) = text
  THEN [ok |-> TRUE, value |-> CHOOSE v \in JsonValues : json_dumps(v) = text]
  ELSE [ok |-> FALSE]

\* "key" in data
HasKey(data, key) == \E i \in 1..Len(data.items) : data.items[i].k = key

\* data[key]
GetKey(data, key) ==
  data.items[CHOOSE i \in 1..Len(data.items) : data.items[i].k = key].v

(* ------------------------ upstream responses --------------------------- *)

\* response.content: the body bytes, by the magic bytes they start with, whether
\* they decompress, the text they carry and the text of the bytes as they are
Content(magic, intact, text, raw) ==
  [magic |-> magic, intact |-> intact, text |-> text, raw |-> raw]

Plain(text) == Content("none", TRUE, text, text)

BodyTexts == {json_dumps(v) : v \in JsonValues} \cup {"", "oops"}

Contents ==
  {Plain(t) : t \in BodyTexts}
    \cup { Content("gzip", TRUE, "{\"detail\":\"rate limited\"}", "<gzip bytes>"),
           Content("gzip", FALSE, "", "<gzip bytes>"),
           Content("zlib", TRUE, "oops", "<zlib bytes>") }

Statuses == {200, 399, ErrorStatus, 429, 500}

Response(status, content) ==
  [kind |-> "response", status_code |-> status, content |-> content]

NoResponse == [kind |-> "none"]

Responses == {Response(s, b) : s \in Statuses, b \in Contents}

\* decode_response_content: decompress when the magic bytes say so and the
\* data decompresses, else keep the bytes; then decode to text (latin-1 accepts
\* any byte, so decoding always yields a text)
decode_response_content(response) ==
  LET content == response.content
  IN  IF content.magic \in {"gzip", "zlib"} /\ content.intact
      THEN content.text
      ELSE content.raw

\* extract_error_message
extract_error_message(response) ==
  LET text == decode_response_content(response)
      parsed == json_loads(text)
  IN  IF parsed.ok
      THEN LET data == parsed.value
           IN  IF data.t = "obj" /\ HasKey(data, "detail") THEN py_str(GetKey(data, "detail"))
               ELSE IF data.t = "obj" /\ HasKey(data, "error") THEN py_str(GetKey(data, "error"))
               ELSE IF data.t = "obj" /\ HasKey(data, "message") THEN py_str(GetKey(data, "message"))
               ELSE text
      ELSE IF text # "" THEN text ELSE "HTTP " \o ToString(response.status_code)

\* a failure test that lets status 400 through
IsFailureAbove(status) == status > ErrorStatus

\* response.status_code >= 400
IsFailure(status) == status >= ErrorStatus

ApiErrorMessage(response) ==
  "API Error (" \o ToString(response.status_code) \o "): "
    \o extract_error_message(response)

\* make_api_request, from the response on: raise on a failure status, else
\* return the parsed body, or the text wrapped in {"result": text}
HandleResponse(response) ==
  IF IsFailure(response.status_code)
  THEN RaiseValueError(ApiErrorMessage(response))
  ELSE LET text == decode_response_content(response)
           parsed == json_loads(text)
       IN  IF parsed.ok
           THEN Return(parsed.value)
           ELSE Return(JObj(<<Member("result", JStr(text))>>))

(* ------------------------- tool invocations ---------------------------- *)

\* the argument records a host may pass to each registered tool; page and
\* page_size are sent by a caller of pull_job_results although its signature
\* declares job_id only
ToolArgs(tool) ==
  CASE tool = "submit_url" ->
         {[url |-> "https://e.x/a", webhook_url |-> w, extraction_type |-> "article"] :
            w \in {None, "https://hook"}}
    [] tool = "get_job_status" -> {[job_id |-> j] : j \in Ids}
    [] tool = "pull_job_results" ->
         {[job_id |-> j, page |-> pg.page, page_size |-> pg.page_size] :
            j \in Ids, pg \in {[page |-> 1, page_size |-> 100], [page |-> 2, page_size |-> 50]}}
    [] tool = "list_user_jobs" ->
         {[status |-> st, limit |-> 10, offset |-> 0] : st \in {None, "completed"}}
    [] tool = "continue_job" -> {[job_id |-> j] : j \in Ids}
    [] tool = "create_monitor" ->
         {[url |-> "https://e.x/a", name |-> n, schedule |-> "daily"] : n \in {None, "mon"}}
    [] tool = "list_monitors" -> {[none |-> None]}
    [] tool \in {"get_monitor_jobs", "pull_monitor_results", "enable_monitor",
                 "disable_monitor"} -> {[monitor_id |-> m] : m \in Ids}
    [] tool = "update_monitor" ->
         {[monitor_id |-> m, name |-> n, schedule |-> sc] :
            m \in Ids, n \in {None, "", "mon"}, sc \in {None, "", "hourly"}}

\* the tools registered with @mcp.tool()
Tools ==
  {"submit_url", "get_job_status", "pull_job_results", "list_user_jobs",
   "continue_job", "create_monitor", "list_monitors", "get_monitor_jobs",
   "pull_monitor_results", "enable_monitor", "disable_monitor", "update_monitor"}

\* a tool invocation: the tool, its arguments, and the api_key argument of the
\* caller ("" when the caller passes none; no tool signature declares it)
Call(tool, args, api_key) ==
  [kind |-> "call", tool |-> tool, args |-> args, api_key |-> api_key]

NoCall == [kind |-> "none"]

CallsOf(tools) ==
  UNION {{Call(t, a, x) : a \in ToolArgs(t), x \in ExplicitValues} : t \in tools}

Calls == CallsOf(Tools)

\* the invocations and responses of the concurrent specification
ConcCalls ==
  {Call("get_job_status", [job_id |-> j], "") : j \in Ids}
    \cup {Call("update_monitor", [monitor_id |-> m, name |-> n, schedule |-> None], "") :
            m \in Ids, n \in {None, "mon"}}

ConcResponses ==
  {Response(200, Plain("{\"job_id\":\"abc\"}")),
   Response(429, Plain("{\"detail\":\"rate limited\"}"))}

(* ------------------------------- state --------------------------------- *)

VARIABLES
  env,              \* os.environ["NEWSCATCHER_API_KEY"] of the server process
  current_api_key,  \* the ContextVar: its value in each call context
  pc,               \* where the call running in each context stands
  call,             \* the invocation each context is serving
  inbound,          \* the HTTP request the invocation arrived with
  pending,          \* the arguments the tool passes to make_api_request
  request,          \* the upstream request the call issued last
  nreq,             \* how many upstream requests the call has issued
  response,         \* what came back from upstream
  result,           \* how the tool call ended: a returned value or an exception
  observed          \* history: the last non-empty apiKey seen in each context

vars ==
  <<env, current_api_key, pc, call, inbound, pending, request, nreq, response,
    result, observed>>

NoRequest == [kind |-> "none"]

NoPending == [kind |-> "none"]

TransportFailed(exc) == [kind |-> "failed", exc |-> exc]

\* the exceptions client.request raises when upstream is not reached in time
TransportErrors == {"httpx.ConnectError", "httpx.ReadTimeout"}

ApiKeyMessage == "API key not provided. Include it in the MCP URL as ?apiKey=YOUR_KEY"

\* a store that is one variable shared by every context
SharedSet(store, c, v) == [x \in Contexts |-> v]

\* ContextVar.set(v) in context c: only that context's value changes
ContextVarSet(store, c, v) == [store EXCEPT ![c] = v]

\* a middleware that stores whatever the query string holds, empty or not
StoreAlways(store, c, rq) ==
  ContextVarSet(store, c, IF rq.present THEN rq.apiKey ELSE "")

\* ApiKeyMiddleware.on_call_tool up to call_next: store the apiKey query
\* parameter when it is non-empty; no HTTP request, no change
StoreApiKey(store, c, rq) ==
  LET api_key == IF rq.present THEN rq.apiKey ELSE ""
  IN  IF api_key # "" THEN ContextVarSet(store, c, api_key) ELSE store

\* a resolver that falls back to the caller's argument and the environment
ResolveWithFallback(stored, explicit, environment) ==
  IF explicit # "" THEN explicit
  ELSE IF stored # "" THEN stored
  ELSE environment

\* api_key = current_api_key.get(""): the context variable alone
ResolveApiKey(stored, explicit, environment) == stored

\* a check that lets an empty key through
NeverMissing(api_key) == FALSE

\* if not api_key
KeyMissing(api_key) == api_key = ""

\* the headers of every upstream request
Headers(api_key) ==
  [x_api_key |-> api_key, content_type |-> "application/json",
   accept |-> "application/json"]

\* a client that sends the request again after a failure
RetryAfterFailure(outcome) ==
  IF outcome.kind = "raise" THEN "make_api_request" ELSE "done"

\* where the call stands after the one client.request: it has ended, with
\* the value returned or the exception raised
AfterAttempt(outcome) == "done"

Init ==
  /\ env \in EnvValues
  /\ current_api_key = [c \in Contexts |-> ""]
  /\ pc = [c \in Contexts |-> "idle"]
  /\ call = [c \in Contexts |-> NoCall]
  /\ inbound = [c \in Contexts |-> NoHttpRequest]
  /\ pending = [c \in Contexts |-> NoPending]
  /\ request = [c \in Contexts |-> NoRequest]
  /\ nreq = [c \in Contexts |-> 0]
  /\ response = [c \in Contexts |-> NoResponse]
  /\ result = [c \in Contexts |-> NoResult]
  /\ observed = [c \in Contexts |-> ""]

(* ------------------------------ actions -------------------------------- *)

\* the host dispatches a tool call in context c: the middleware runs up to
\* "await call_next(context)"
on_call_tool(c, calls) ==
  /\ pc[c] = "idle"
  /\ \E cl \in calls, rq \in HttpRequests :
       /\ call' = [call EXCEPT ![c] = cl]
       /\ inbound' = [inbound EXCEPT ![c] = rq]
       /\ current_api_key' = StoreApiKey(current_api_key, c, rq)
       /\ observed' = [observed EXCEPT ![c] =
                         IF rq.present /\ rq.apiKey # "" THEN rq.apiKey ELSE @]
  /\ pc' = [pc EXCEPT ![c] = "tool"]
  /\ pending' = [pending EXCEPT ![c] = NoPending]
  /\ request' = [request EXCEPT ![c] = NoRequest]
  /\ nreq' = [nreq EXCEPT ![c] = 0]
  /\ response' = [response EXCEPT ![c] = NoResponse]
  /\ result' = [result EXCEPT ![c] = NoResult]
  /\ UNCHANGED env

\* the tool function runs up to its make_api_request call, or raises
tool_function(c) ==
  /\ pc[c] = "tool"
  /\ LET t == ToolBody(call[c].tool, call[c].args)
     IN  IF t.kind = "call"
         THEN /\ pending' = [pending EXCEPT ![c] = t]
              /\ pc' = [pc EXCEPT ![c] = "make_api_request"]
              /\ UNCHANGED result
         ELSE /\ result' = [result EXCEPT ![c] = t]
              /\ pc' = [pc EXCEPT ![c] = "done"]
              /\ UNCHANGED pending
  /\ UNCHANGED <<env, current_api_key, call, inbound, request, nreq, response, observed>>

\* make_api_request up to "await client.request(...)": resolve the key, raise
\* when there is none, else send the request
make_api_request(c) ==
  /\ pc[c] = "make_api_request"
  /\ LET api_key == ResolveApiKey(current_api_key[c], call[c].api_key, env)
     IN  IF KeyMissing(api_key)
         THEN /\ result' = [result EXCEPT ![c] = RaiseValueError(ApiKeyMessage)]
              /\ pc' = [pc EXCEPT ![c] = "done"]
              /\ UNCHANGED <<request, nreq>>
         ELSE /\ request' = [request EXCEPT ![c] =
                               [kind |-> "request", headers |-> Headers(api_key),
                                method |-> pending[c].method, url |-> pending[c].path,
                                json |-> pending[c].json_data,
                                params |-> pending[c].params]]
              /\ nreq' = [nreq EXCEPT ![c] = @ + 1]
              /\ pc' = [pc EXCEPT ![c] = "awaiting"]
              /\ UNCHANGED result
  /\ UNCHANGED <<env, current_api_key, call, inbound, pending, response, observed>>

\* upstream answers: make_api_request classifies and decodes the response
receive_response(c, responses) ==
  /\ pc[c] = "awaiting"
  /\ \E r \in responses :
       /\ response' = [response EXCEPT ![c] = r]
       /\ result' = [result EXCEPT ![c] = HandleResponse(r)]
       /\ pc' = [pc EXCEPT ![c] = AfterAttempt(HandleResponse(r))]
  /\ UNCHANGED <<env, current_api_key, call, inbound, pending, request, nreq, observed>>

\* upstream is not reached, or not within the 60 s timeout: client.request
\* raises and nothing catches the exception
transport_failure(c) ==
  /\ pc[c] = "awaiting"
  /\ \E e \in TransportErrors :
       /\ response' = [response EXCEPT ![c] = TransportFailed(e)]
       /\ result' = [result EXCEPT ![c] = Raise(e, "")]
       /\ pc' = [pc EXCEPT ![c] = AfterAttempt(Raise(e, ""))]
  /\ UNCHANGED <<env, current_api_key, call, inbound, pending, request, nreq, observed>>

\* "return await call_next(context)": the middleware hands the outcome to the
\* host; the call's frame is gone and the context is free for its next call
call_returns(c) ==
  /\ pc[c] = "done"
  /\ pc' = [pc EXCEPT ![c] = "idle"]
  /\ call' = [call EXCEPT ![c] = NoCall]
  /\ inbound' = [inbound EXCEPT ![c] = NoHttpRequest]
  /\ pending' = [pending EXCEPT ![c] = NoPending]
  /\ request' = [request EXCEPT ![c] = NoRequest]
  /\ nreq' = [nreq EXCEPT ![c] = 0]
  /\ response' = [response EXCEPT ![c] = NoResponse]
  /\ result' = [result EXCEPT ![c] = NoResult]
  /\ UNCHANGED <<env, current_api_key, observed>>

\* calls of every tool with every response, served one at a time: a call is
\* dispatched while every other context is between calls
Next ==
  \E c \in Contexts :
    \/ (\A o \in Contexts \ {c} : pc[o] = "idle") /\ on_call_tool(c, Calls)
    \/ tool_function(c)
    \/ make_api_request(c)
    \/ receive_response(c, Responses)
    \/ transport_failure(c)
    \/ call_returns(c)

Spec == Init /\ [][Next]_vars

\* a few calls and responses, the two contexts interleaved at every await
NextConc ==
  \E c \in Contexts :
    \/ on_call_tool(c, ConcCalls)
    \/ tool_function(c)
    \/ make_api_request(c)
    \/ receive_response(c, ConcResponses)
    \/ transport_failure(c)
    \/ call_returns(c)

SpecConc == Init /\ [][NextConc]_vars

(* ------------------------- shared vocabulary --------------------------- *)

\* context c is serving a call
Active(c) == call[c].kind = "call"

\* the call in context c has issued an upstream request
Sent(c) == request[c].kind = "request"

\* the call in context c got as far as make_api_request and past its key check
Forwarded(c) == pending[c].kind = "call" /\ pc[c] \in {"awaiting", "done"}

\* the x-api-key header of the request the call in context c issued
SentKey(c) == request[c].headers.x_api_key

\* the arguments pass the tool's local validation
ValidArgs(cl) ==
  cl.tool = "update_monitor" => Truthy(cl.args.name) \/ Truthy(cl.args.schedule)

\* the first non-empty of the three credential sources, "" when all are empty
FirstNonEmpty(explicit, connection, environment) ==
  IF explicit # "" THEN explicit
  ELSE IF connection # "" THEN connection
  ELSE environment

(* -------------------------------- C1 ----------------------------------- *)

\* C1 as stated: whenever at least one of the explicit, connection-scoped and
\* environment credentials is non-empty, the forwarded request carries the
\* first non-empty one in the order explicit > connection-scoped > environment.
C1_PrecedenceAsStated ==
  \A c \in Contexts :
    (Forwarded(c) /\ FirstNonEmpty(call[c].api_key, current_api_key[c], env) # "")
      => (Sent(c)
          /\ SentKey(c) = FirstNonEmpty(call[c].api_key, current_api_key[c], env))

\* C1 amended: the credential of a tool call is the connection-scoped one
\* alone. When it is non-empty the request carries it, whatever the caller's
\* api_key argument and the environment hold; when it is empty no request is
\* issued and the call fails with the missing-key error, even if the
\* environment or the caller's argument holds a key.
C1_ConnectionKeyOnly ==
  \A c \in Contexts :
    Forwarded(c)
      => IF current_api_key[c] # ""
         THEN Sent(c) /\ SentKey(c) = current_api_key[c]
         ELSE ~Sent(c) /\ nreq[c] = 0 /\ result[c] = RaiseValueError(ApiKeyMessage)

C1_Witness ==
  \E c \in Contexts :
    /\ Forwarded(c) /\ Sent(c)
    /\ env = "KENV" /\ call[c].api_key = "KEXP"
    /\ current_api_key[c] = "K1" /\ SentKey(c) = "K1"

(* -------------------------------- C2 ----------------------------------- *)

\* C2: a tool invocation for which every credential source is empty issues no
\* upstream request, and once it has ended it has ended with an error raised
\* before any network call, whichever tool it is.
C2_NoCredentialNoRequest ==
  \A c \in Contexts :
    (Active(c) /\ call[c].api_key = "" /\ current_api_key[c] = "" /\ env = "")
      => /\ ~Sent(c) /\ nreq[c] = 0 /\ response[c] = NoResponse
         /\ pc[c] # "awaiting"
         /\ pc[c] = "done"
              => result[c] = IF ValidArgs(call[c])
                             THEN RaiseValueError(ApiKeyMessage)
                             ELSE RaiseValueError(UpdateMonitorMessage)

C2_Witness ==
  \E c \in Contexts :
    /\ Active(c) /\ call[c].tool = "submit_url" /\ pc[c] = "done"
    /\ call[c].api_key = "" /\ current_api_key[c] = "" /\ env = ""
    /\ result[c] = RaiseValueError(ApiKeyMessage) /\ nreq[c] = 0

(* -------------------------------- C3 ----------------------------------- *)

\* C3: when two call contexts serve calls at the same time, each arriving with
\* its own non-empty apiKey, the x-api-key a call sends is the apiKey of its
\* own context and never the one supplied in the other context.
C3_ConnectionIsolation ==
  \A c \in Contexts : \A o \in Contexts \ {c} :
    ( /\ Active(c) /\ Active(o)
      /\ inbound[c].apiKey # "" /\ inbound[o].apiKey # ""
      /\ inbound[c].apiKey # inbound[o].apiKey
      /\ Sent(c) )
      => SentKey(c) = inbound[c].apiKey /\ SentKey(c) # inbound[o].apiKey

C3_Witness ==
  /\ pc["ctxA"] = "awaiting" /\ pc["ctxB"] = "awaiting"
  /\ inbound["ctxA"].apiKey = "K1" /\ inbound["ctxB"].apiKey = "K2"
  /\ SentKey("ctxA") = "K1" /\ SentKey("ctxB") = "K2"

(* -------------------------------- C4 ----------------------------------- *)

C5_ExactlyOneRequest ==
  \A c \in Contexts :
    /\ nreq[c] <= 1
    /\ pc[c] = "awaiting" => nreq[c] = 1
    /\ (pc[c] = "done" /\ current_api_key[c] # "" /\ ValidArgs(call[c]))
         => nreq[c] = 1 /\ Sent(c)

C5_Witness ==
  \E c \in Contexts :
    /\ pc[c] = "done" /\ nreq[c] = 1
    /\ response[c].kind = "response" /\ response[c].status_code = 500
    /\ result[c].kind = "raise"

(* -------------------------------- C6 ----------------------------------- *)

\* the call in context c met an error: invalid arguments, no credential, a
\* transport failure or a failure status
ErrorCase(c) ==
  \/ ~ValidArgs(call[c])
  \/ current_api_key[c] = ""
  \/ response[c].kind = "failed"
  \/ response[c].kind = "response" /\ response[c].status_code >= ErrorStatus

\* C6 as stated: every tool call ends by returning a result, errors included
\* (as a string); none ends by raising across the tool boundary.
C6_ErrorsReturnedAsStated ==
  \A c \in Contexts : pc[c] = "done" => result[c].kind = "return"

\* C6 amended: a tool call ends by returning a value exactly when it met no
\* error; every error leaves the tool function as a raised exception: the
\* missing credential, the failure status and the failed validation as a
\* ValueError with a descriptive message, a transport failure or timeout as
\* the HTTP client's own exception. No error is returned as a string.
C6_ErrorsRaised ==
  \A c \in Contexts :
    pc[c] = "done"
      => /\ result[c].kind \in {"return", "raise"}
         /\ result[c].kind = "raise" <=> ErrorCase(c)
         /\ result[c].kind = "raise"
              => IF ~ValidArgs(call[c])
                   THEN result[c] = Raise("ValueError", UpdateMonitorMessage)
                 ELSE IF current_api_key[c] = ""
                   THEN result[c] = Raise("ValueError", ApiKeyMessage)
                 ELSE IF response[c].kind = "failed"
                   THEN result[c] = Raise(response[c].exc, "")
                 ELSE result[c] = Raise("ValueError", ApiErrorMessage(response[c]))

C6_Witness ==
  \E c \in Contexts :
    /\ pc[c] = "done" /\ result[c] = Raise("ValueError", ApiKeyMessage)
    /\ call[c].tool = "list_monitors"

(* -------------------------------- C7 ----------------------------------- *)

\* the message the claim describes: detail (a nested detail unwrapped), else
\* error, else message, else the raw text, else "HTTP {status}"
ClaimedMessage(r) ==
  LET text == decode_response_content(r)
      parsed == json_loads(text)
      data == parsed.value
      isobj == parsed.ok /\ data.t = "obj"
  IN  IF isobj /\ HasKey(data, "detail")
        THEN LET d == GetKey(data, "detail")
             IN  IF d.t = "obj" /\ HasKey(d, "detail")
                 THEN py_str(GetKey(d, "detail"))
                 ELSE py_str(d)
      ELSE IF isobj /\ HasKey(data, "error") THEN py_str(GetKey(data, "error"))
      ELSE IF isobj /\ HasKey(data, "message") THEN py_str(GetKey(data, "message"))
      ELSE IF text # "" THEN text
      ELSE "HTTP " \o ToString(r.status_code)

\* C7: for every failed response the error carries the message chosen in the
\* order detail (a nested detail unwrapped) > error > message > raw text >
\* "HTTP {status}".
C7_MessageAsStated ==
  \A c \in Contexts :
    (response[c].kind = "response" /\ response[c].status_code >= ErrorStatus)
      => /\ extract_error_message(response[c]) = ClaimedMessage(response[c])
         /\ result[c] = Raise("ValueError",
                              "API Error (" \o ToString(response[c].status_code)
                                \o "): " \o ClaimedMessage(response[c]))

(* -------------------------------- C8 ----------------------------------- *)

\* C8: the status alone decides the outcome of a forwarded call: a status
\* >= 400 yields the error carrying the status code and the extracted message
\* and never a value; a status < 400 yields a value and never an error, the
\* parsed JSON body or, for a body that is not JSON, {"result": text}.
C8_StatusDecidesOutcome ==
  \A c \in Contexts :
    response[c].kind = "response"
      => LET r == response[c]
             text == decode_response_content(r)
         IN  IF r.status_code >= ErrorStatus
             THEN result[c] = Raise("ValueError",
                                    "API Error (" \o ToString(r.status_code) \o "): "
                                      \o extract_error_message(r))
             ELSE /\ result[c].kind = "return"
                  /\ IF text \in {json_dumps(v) : v \in JsonValues}
                     THEN result[c].value \in JsonValues
                          /\ json_dumps(result[c].value) = text
                     ELSE result[c].value = JObj(<<Member("result", JStr(text))>>)

C8_Witness ==
  \E c \in Contexts :
    /\ response[c] = Response(429, Plain("{\"detail\":\"rate limited\"}"))
    /\ result[c] = Raise("ValueError", "API Error (429): rate limited")

(* -------------------------------- C9 ----------------------------------- *)

\* the fields of an update_monitor call that are supplied (not None, not "")
Supplied(a) == {k \in {"name", "schedule"} : Truthy(a[k])}

\* C9: update_monitor with neither name nor schedule supplied ends with the
\* validation error and issues no request, whatever the credential state;
\* with at least one supplied, the request it issues (one, when a credential
\* is stored) is PATCH /catchAll/monitors/{monitor_id} with a body of exactly
\* the supplied fields.
C9_UpdateMonitor ==
  \A c \in Contexts :
    (Active(c) /\ call[c].tool = "update_monitor")
      => LET a == call[c].args
         IN  IF Supplied(a) = {}
             THEN /\ ~Sent(c) /\ nreq[c] = 0 /\ pc[c] \notin {"make_api_request", "awaiting"}
                  /\ pc[c] = "done" => result[c] = Raise("ValueError", UpdateMonitorMessage)
             ELSE /\ (Forwarded(c) /\ current_api_key[c] # "") => Sent(c) /\ nreq[c] = 1
                  /\ Sent(c)
                       => /\ request[c].method = "PATCH"
                          /\ request[c].url = "/catchAll/monitors/" \o a.monitor_id
                          /\ request[c].json.kind = "dict"
                          /\ DOMAIN request[c].json.data = Supplied(a)
                          /\ \A k \in Supplied(a) : request[c].json.data[k] = a[k]
                          /\ request[c].params = NoParams

C9_Witness ==
  \E c \in Contexts :
    /\ Active(c) /\ call[c].tool = "update_monitor" /\ pc[c] = "done"
    /\ call[c].args.name = "" /\ call[c].args.schedule = None
    /\ current_api_key[c] = "K1"
    /\ result[c] = Raise("ValueError", UpdateMonitorMessage) /\ nreq[c] = 0

(* -------------------------------- C10 ---------------------------------- *)

\* C10 as stated: the pull tool called with a job id, page and page_size
\* issues GET /catchAll/pull/{job_id} with page and page_size as query
\* parameters.
C10_PullPagedAsStated ==
  \A c \in Contexts :
    (Active(c) /\ call[c].tool = "pull_job_results" /\ Sent(c))
      => /\ request[c].method = "GET"
         /\ request[c].url = "/catchAll/pull/" \o call[c].args.job_id
         /\ request[c].params = Params([page |-> call[c].args.page,
                                       page_size |-> call[c].args.page_size])

\* C10 amended: the request pull_job_results issues is
\* GET /catchAll/pull/{job_id} with no query parameters and no body; page and
\* page_size are not parameters of the tool and are never forwarded.
C10_PullUnpaged ==
  \A c \in Contexts :
    (Active(c) /\ call[c].tool = "pull_job_results")
      => /\ (Forwarded(c) /\ current_api_key[c] # "") => Sent(c)
         /\ Sent(c)
              => /\ request[c].method = "GET"
                 /\ request[c].url = "/catchAll/pull/" \o call[c].args.job_id
                 /\ request[c].params = NoParams
                 /\ request[c].json = NoJson

C10_Witness ==
  \E c \in Contexts :
    /\ Active(c) /\ call[c].tool = "pull_job_results" /\ Sent(c)
    /\ call[c].args = [job_id |-> "id1", page |-> 2, page_size |-> 50]
    /\ request[c].url = "/catchAll/pull/id1"

====
